---- MODULE Spec2Model ----
(***************************************************************************)
(* Model of automate_vent_pi.py: the VentDehumidifyStateMachine decision   *)
(* engine, the DehumidifyVentController / GPIOController output lines it   *)
(* drives, and the polling loop that calls update().                       *)
(*                                                                         *)
(* Time is in seconds.  The clock is read once per update cycle: the       *)
(* _now() calls inside one update() are microseconds apart, far below the  *)
(* resolution of any duration the engine compares against.                 *)
(*                                                                         *)
(* Floats are fixed-point integers in units of 1/Scale, where Scale is a   *)
(* multiple of every possible buffer length, so that sum(d)/len(d) is      *)
(* exact.                                                                  *)
(***************************************************************************)
EXTENDS Integers, Sequences, FiniteSets, TLC

(* ------------------------------------------------------------------ *)
(* Bounds of the model                                                 *)
(* ------------------------------------------------------------------ *)

\* smoothing window size handed to the constructor (default 5)
smoothing_samples == 2
\* debounce interval handed to the constructor (default 60)
min_change_interval_s == 2400
\* the clock stops advancing here
MaxTime == 5400

\* seconds that may pass between two update cycles (sleep plus blocking I/O)
Elapse == {1800, 3600}

\* samples pushed into one buffer when the buffer is studied on its own
MaxPushes == 5
\* commands sent to the controller when the lines are studied on their own
MaxCmds == 4
\* the clock stops advancing here when driver faults are studied
MaxLoopTime == 3600
\* the clock stops advancing here when constructor arguments are studied
MaxCtorTime == 1800
\* the clock stops advancing here when the sensors are studied
MaxSensorTime == 4

(* ------------------------------------------------------------------ *)
(* Configuration: constructor defaults                                 *)
(* ------------------------------------------------------------------ *)

None == -1

AQI_THRESHOLD == 50
IDEAL_HUMIDITY == 35
IDEAL_TEMPERATURE_F == 72
MAX_OUTDOOR_HUMIDITY == 85
MIN_OUTDOOR_TEMPERATURE_F == 0
MAX_OUTDOOR_TEMPERATURE_F == 90
limited_on_s == 10 * 60
limited_off_s == 50 * 60
limited_cycle_len == limited_on_s + limited_off_s
quick_vent_s == 5 * 60
quick_cycle_len == 60 * 60

TooColdMargin == 15
DehumConsiderHumidity == 50
DehumNoVentHumidity == 60
FallbackHumidity == 40
FallbackTemperature == 70

vent_pin == 5
dehum_pin == 22

\* DHT11Sensor: probe reads per read() call, seconds between two probings
MaxAttempts == 3
read_interval == 2

(* ------------------------------------------------------------------ *)
(* Inputs                                                              *)
(* ------------------------------------------------------------------ *)

\* what PurpleAirSensor exposes after a successful update()
OutdoorReadings ==
    { [aqi |-> 10, hum |-> 50, temp |-> 68],
      [aqi |-> 40, hum |-> 50, temp |-> 68],
      [aqi |-> 10, hum |-> 50, temp |-> 80],
      [aqi |-> 10, hum |-> 50, temp |-> 95],
      [aqi |-> 80, hum |-> 50, temp |-> 68],
      [aqi |-> 10, hum |-> 90, temp |-> 68] }

\* what indoor_sensor.read() delivers: failure, or success with the stored
\* Celsius temperature and % humidity
IndoorReadings ==
    { [ok |-> FALSE, c |-> 0, hum |-> 0],
      [ok |-> TRUE, c |-> 20, hum |-> 40],
      [ok |-> TRUE, c |-> 30, hum |-> 55],
      [ok |-> TRUE, c |-> 30, hum |-> 65] }

\* the arguments a caller may hand to update(); the polling loop hands none
CallerArgs ==
    { [hum |-> None, temp |-> None],
      [hum |-> 70, temp |-> None],
      [hum |-> None, temp |-> 80] }

(* ------------------------------------------------------------------ *)
(* Fixed-point arithmetic                                              *)
(* ------------------------------------------------------------------ *)

RECURSIVE Fact(_)
Fact(n) == IF n <= 1 THEN 1 ELSE n * Fact(n - 1)

Scale == Fact(smoothing_samples)

Fx(x) == x * Scale

Abs(x) == IF x < 0 THEN 0 - x ELSE x

RECURSIVE Sum(_)
Sum(d) == IF d = <<>> THEN 0 ELSE Head(d) + Sum(Tail(d))

VARIABLES
    clock,                  \* what _now() returns
    aqi_hist,               \* _aqi_hist
    hum_hist,               \* _hum_hist
    temp_hist,              \* _temp_hist
    indoor_temp_hist,       \* _indoor_temp_hist
    indoor_hum_hist,        \* _indoor_hum_hist
    last_vent_change,       \* _last_vent_change
    last_dehum_change,      \* _last_dehum_change
    limited_cycle_start,    \* _limited_cycle_start
    limited_mode,           \* _limited_mode
    quick_vent_start,       \* _quick_vent_start
    quick_vent_mode,        \* _quick_vent_mode
    pins,                   \* level of the two output lines (GPIOController)
    \* what the last update() call did, kept for the properties:
    outdoor_ok,             \* result of self.aqi.update()
    indoor_read,            \* indoor_sensor.read() was called
    indoor_ok,              \* indoor_sensor_success
    arg_humidity,           \* the indoor_humidity argument of the call
    arg_temperature,        \* the indoor_temperature argument of the call
    indoor_temperature,     \* the local indoor_temperature at the decision
    indoor_humidity,        \* the local indoor_humidity at the decision
    vent_rule,              \* branch of the vent decision that was taken
    desired_vent,           \* the local desired_vent
    desired_dehum,          \* the local desired_dehum
    vent_cmd,               \* controller call made by the vent block
    dehum_cmd,              \* controller call made by the dehumidifier block
    vent_recent,            \* the vent's debounce timer was still running
    dehum_recent,           \* the dehumidifier's debounce timer was still running
    had_mode,               \* a cycling start time was stored when the cycle began
    \* when each output line last changed level, seen on the line itself:
    vent_flip_at,
    dehum_flip_at,
    \* the program around the engine:
    cfg,                    \* smoothing_samples, limited_on_s, limited_off_s
                            \* as handed to __init__
    pc,                     \* position of __main__: "start", "loop", "ended"
    fault,                  \* the exception or sensor failure met by the last
                            \* step, "none" if none
    \* what has been done to a buffer or to the lines, kept for the properties:
    pushed,                 \* every sample appended to _aqi_hist, in order
    commands,               \* every controller command issued, in order
    held,                   \* the lines whose wanted change the cycle before
                            \* this one held back, the wanted level being the
                            \* same in both cycles
    \* the actuator driver in __main__:
    gpio_exists,            \* 'gpio' in locals()
    cleanups,               \* number of gpio.cleanup() calls so far
    \* DHT11Sensor:
    dht_temperature,        \* _temperature, Celsius
    dht_humidity,           \* _humidity
    dht_last_reading,       \* _last_reading
    attempts                \* probe reads made by the last read() call

buffers == <<aqi_hist, hum_hist, temp_hist, indoor_temp_hist, indoor_hum_hist>>
modes == <<limited_cycle_start, limited_mode, quick_vent_start, quick_vent_mode>>
stamps == <<last_vent_change, last_dehum_change>>
engine == <<buffers, modes, stamps, pins>>
cycle == <<outdoor_ok, indoor_read, indoor_ok, arg_humidity, arg_temperature,
           indoor_temperature, indoor_humidity,
           vent_rule, desired_vent, desired_dehum, vent_cmd, dehum_cmd,
           vent_recent, dehum_recent, had_mode>>
flips == <<vent_flip_at, dehum_flip_at>>
program == <<cfg, pc, fault>>
logs == <<pushed, commands>>
driver == <<gpio_exists, cleanups>>
probe == <<dht_temperature, dht_humidity, dht_last_reading, attempts>>
rest == <<held, driver, probe>>
vars == <<clock, engine, cycle, flips, program, logs, rest>>

(* ------------------------------------------------------------------ *)
(* Smoothing buffers                                                   *)
(* ------------------------------------------------------------------ *)

\* an append that forgets the samples stored before
DequeAppendRestart(d, x) == <<x>>

\* deque(maxlen=smoothing_samples).append
DequeAppend(d, x) ==
    IF smoothing_samples = 0 THEN <<>>
    ELSE IF Len(d) < smoothing_samples THEN Append(d, x)
    ELSE Append(Tail(d), x)

_avg(d) == IF d = <<>> THEN 0 ELSE (Sum(d) * Scale) \div Len(d)

\* DHT11Sensor.temperature_f; exact for the Celsius values of IndoorReadings,
\* which are multiples of 5
temperature_f(c) == (c * 9) \div 5 + 32

(* ------------------------------------------------------------------ *)
(* Actuator lines                                                      *)
(* ------------------------------------------------------------------ *)

\* a turn_on that flips the line instead of driving it high
turn_on_toggling(p, pin) == [p EXCEPT ![pin] = 1 - p[pin]]

turn_on(p, pin) == [p EXCEPT ![pin] = 1]
turn_off(p, pin) == [p EXCEPT ![pin] = 0]
read_pin(p, pin) == IF pin \in DOMAIN p THEN p[pin] ELSE 0

get_vent_state(p) == read_pin(p, vent_pin) # 0
get_dehumidifier_state(p) == read_pin(p, dehum_pin) # 0

(* ------------------------------------------------------------------ *)
(* Decision rules of update()                                          *)
(* ------------------------------------------------------------------ *)

temp_in_range(avg_outdoor_temp) ==
    /\ Fx(MIN_OUTDOOR_TEMPERATURE_F) <= avg_outdoor_temp
    /\ avg_outdoor_temp <= Fx(MAX_OUTDOOR_TEMPERATURE_F)

temp_would_bring_closer(avg_outdoor_temp, indoor_t) ==
    Abs(avg_outdoor_temp - Fx(IDEAL_TEMPERATURE_F)) < Abs(indoor_t - Fx(IDEAL_TEMPERATURE_F))

outdoor_cooler_than_ideal(avg_outdoor_temp) == avg_outdoor_temp < Fx(IDEAL_TEMPERATURE_F)
outdoor_too_cold(avg_outdoor_temp) == avg_outdoor_temp < Fx(IDEAL_TEMPERATURE_F - TooColdMargin)
indoor_warmer_than_ideal(indoor_t) == indoor_t > Fx(IDEAL_TEMPERATURE_F)
outdoor_hotter_than_ideal(avg_outdoor_temp) == avg_outdoor_temp > Fx(IDEAL_TEMPERATURE_F)

\* a vent decision that forgets the outdoor-temperature range guard
VentRuleNoRangeGuard(avg_aqi, avg_outdoor_hum, avg_outdoor_temp, indoor_t) ==
    IF avg_aqi > Fx(AQI_THRESHOLD) THEN "aqi"
    ELSE IF avg_outdoor_hum > Fx(MAX_OUTDOOR_HUMIDITY) THEN "humidity"
    ELSE IF temp_would_bring_closer(avg_outdoor_temp, indoor_t) THEN "closer"
    ELSE IF outdoor_hotter_than_ideal(avg_outdoor_temp) \/ outdoor_too_cold(avg_outdoor_temp)
         THEN "quick"
    ELSE "limited"

\* a vent decision that forgets the outdoor-humidity guard
VentRuleNoRainGuard(avg_aqi, avg_outdoor_hum, avg_outdoor_temp, indoor_t) ==
    IF avg_aqi > Fx(AQI_THRESHOLD) THEN "aqi"
    ELSE IF ~temp_in_range(avg_outdoor_temp) THEN "range"
    ELSE IF temp_would_bring_closer(avg_outdoor_temp, indoor_t) THEN "closer"
    ELSE IF (outdoor_hotter_than_ideal(avg_outdoor_temp) \/ outdoor_too_cold(avg_outdoor_temp))
            /\ temp_in_range(avg_outdoor_temp) THEN "quick"
    ELSE "limited"

\* which branch of the vent decision is taken
VentRule(avg_aqi, avg_outdoor_hum, avg_outdoor_temp, indoor_t) ==
    IF avg_aqi > Fx(AQI_THRESHOLD) THEN "aqi"
    ELSE IF ~temp_in_range(avg_outdoor_temp) THEN "range"
    ELSE IF avg_outdoor_hum > Fx(MAX_OUTDOOR_HUMIDITY) THEN "humidity"
    ELSE IF temp_would_bring_closer(avg_outdoor_temp, indoor_t) THEN "closer"
    ELSE IF (outdoor_hotter_than_ideal(avg_outdoor_temp) \/ outdoor_too_cold(avg_outdoor_temp))
            /\ temp_in_range(avg_outdoor_temp) THEN "quick"
    ELSE "limited"

\* a phase test that forgets the modulo
PhaseOnNoWrap(start, now, cycle_len, on_s) == (now - start) < on_s

\* elapsed % cycle_len < on_s
PhaseOn(start, now, cycle_len, on_s) == ((now - start) % cycle_len) < on_s

\* cycling-mode fields whose start time is taken anew in every cycle
ModesAfterRestart(rule, now) ==
    IF rule = "closer" THEN
        [limited_mode |-> FALSE, limited_cycle_start |-> None,
         quick_vent_mode |-> FALSE, quick_vent_start |-> None]
    ELSE IF rule = "quick" THEN
        [limited_mode |-> limited_mode, limited_cycle_start |-> limited_cycle_start,
         quick_vent_mode |-> TRUE, quick_vent_start |-> now]
    ELSE IF rule = "limited" THEN
        [limited_mode |-> TRUE, limited_cycle_start |-> now,
         quick_vent_mode |-> quick_vent_mode, quick_vent_start |-> quick_vent_start]
    ELSE
        [limited_mode |-> limited_mode, limited_cycle_start |-> limited_cycle_start,
         quick_vent_mode |-> quick_vent_mode, quick_vent_start |-> quick_vent_start]

\* cycling-mode fields that the "closer" branch leaves as they are
ModesAfterKeep(rule, now) ==
    IF rule = "quick" THEN
        [limited_mode |-> limited_mode, limited_cycle_start |-> limited_cycle_start,
         quick_vent_mode |-> TRUE,
         quick_vent_start |-> IF quick_vent_start = None THEN now ELSE quick_vent_start]
    ELSE IF rule = "limited" THEN
        [limited_mode |-> TRUE,
         limited_cycle_start |-> IF limited_cycle_start = None THEN now ELSE limited_cycle_start,
         quick_vent_mode |-> quick_vent_mode, quick_vent_start |-> quick_vent_start]
    ELSE
        [limited_mode |-> limited_mode, limited_cycle_start |-> limited_cycle_start,
         quick_vent_mode |-> quick_vent_mode, quick_vent_start |-> quick_vent_start]

\* the cycling-mode fields after the vent decision
ModesAfter(rule, now) ==
    IF rule = "closer" THEN
        [limited_mode |-> FALSE, limited_cycle_start |-> None,
         quick_vent_mode |-> FALSE, quick_vent_start |-> None]
    ELSE IF rule = "quick" THEN
        [limited_mode |-> limited_mode, limited_cycle_start |-> limited_cycle_start,
         quick_vent_mode |-> TRUE,
         quick_vent_start |-> IF quick_vent_start = None THEN now ELSE quick_vent_start]
    ELSE IF rule = "limited" THEN
        [limited_mode |-> TRUE,
         limited_cycle_start |-> IF limited_cycle_start = None THEN now ELSE limited_cycle_start,
         quick_vent_mode |-> quick_vent_mode, quick_vent_start |-> quick_vent_start]
    ELSE
        [limited_mode |-> limited_mode, limited_cycle_start |-> limited_cycle_start,
         quick_vent_mode |-> quick_vent_mode, quick_vent_start |-> quick_vent_start]

\* a limited cycle that tests the phase against the OFF duration
DesiredVentLimitedOff(rule, m, now) ==
    IF rule = "closer" THEN TRUE
    ELSE IF rule = "quick" THEN
        ((now - m.quick_vent_start) % quick_cycle_len) < quick_vent_s
    ELSE IF rule = "limited" THEN
        ((now - m.limited_cycle_start) % limited_cycle_len) < limited_off_s
    ELSE FALSE

\* desired_vent, given the branch and the cycling-mode fields it left
DesiredVent(rule, m, now) ==
    IF rule = "closer" THEN TRUE
    ELSE IF rule = "quick" THEN PhaseOn(m.quick_vent_start, now, quick_cycle_len, quick_vent_s)
    ELSE IF rule = "limited" THEN PhaseOn(m.limited_cycle_start, now, limited_cycle_len, limited_on_s)
    ELSE FALSE

\* a dehumidifier decision that tests the 50% floor where the code tests 60%
DesiredDehumNoSixty(indoor_h, indoor_t, avg_outdoor_temp, dvent) ==
    IF indoor_h > Fx(IDEAL_HUMIDITY) /\ indoor_h > Fx(DehumConsiderHumidity) THEN
        IF outdoor_cooler_than_ideal(avg_outdoor_temp) THEN
            IF dvent THEN
                ~(temp_would_bring_closer(avg_outdoor_temp, indoor_t)
                  /\ indoor_warmer_than_ideal(indoor_t))
            ELSE FALSE
        ELSE IF indoor_warmer_than_ideal(indoor_t) THEN
            IF dvent THEN FALSE
            ELSE indoor_h > Fx(DehumConsiderHumidity)
        ELSE FALSE
    ELSE FALSE

\* a dehumidifier decision that forgets the 50% floor
DesiredDehumNoFloor(indoor_h, indoor_t, avg_outdoor_temp, dvent) ==
    IF indoor_h > Fx(IDEAL_HUMIDITY) THEN
        IF outdoor_cooler_than_ideal(avg_outdoor_temp) THEN
            IF dvent THEN
                ~(temp_would_bring_closer(avg_outdoor_temp, indoor_t)
                  /\ indoor_warmer_than_ideal(indoor_t))
            ELSE FALSE
        ELSE IF indoor_warmer_than_ideal(indoor_t) THEN
            IF dvent THEN FALSE
            ELSE indoor_h > Fx(DehumNoVentHumidity)
        ELSE FALSE
    ELSE FALSE

\* desired_dehum
DesiredDehum(indoor_h, indoor_t, avg_outdoor_temp, dvent) ==
    IF indoor_h > Fx(IDEAL_HUMIDITY) /\ indoor_h > Fx(DehumConsiderHumidity) THEN
        IF outdoor_cooler_than_ideal(avg_outdoor_temp) THEN
            IF dvent THEN
                ~(temp_would_bring_closer(avg_outdoor_temp, indoor_t)
                  /\ indoor_warmer_than_ideal(indoor_t))
            ELSE FALSE
        ELSE IF indoor_warmer_than_ideal(indoor_t) THEN
            IF dvent THEN FALSE
            ELSE indoor_h > Fx(DehumNoVentHumidity)
        ELSE FALSE
    ELSE FALSE

\* an indoor value that prefers the caller's argument to the stored samples
IndoorValueArgFirst(use_hist, hist, arg, default) ==
    IF arg # None THEN Fx(arg)
    ELSE IF use_hist THEN _avg(hist)
    ELSE Fx(default)

\* the indoor value the decisions use: the buffer average after a successful
\* read or when both indoor buffers hold samples, else the caller's argument,
\* else the fixed default
IndoorValue(use_hist, hist, arg, default) ==
    IF use_hist THEN _avg(hist)
    ELSE IF arg = None THEN Fx(default)
    ELSE Fx(arg)

(* ------------------------------------------------------------------ *)
(* Debounce and actuation                                              *)
(* ------------------------------------------------------------------ *)

\* a gate that never holds a change back
DebounceAlwaysOpen(last_change, now) == TRUE

DebounceOpen(last_change, now) ==
    last_change = None \/ (now - last_change) >= min_change_interval_s

\* a vent control block that closes the vent in every cycle with poor air,
\* open or not
VentControlAqiAlways(avg_aqi, dvent, current, last_change, now) ==
    IF avg_aqi > Fx(AQI_THRESHOLD) THEN "deactivate"
    ELSE IF dvent # current THEN
        IF DebounceOpen(last_change, now)
        THEN (IF dvent THEN "activate" ELSE "deactivate")
        ELSE "none"
    ELSE "none"

\* a vent control block whose AQI closure waits for the debounce timer
VentControlDebounced(avg_aqi, dvent, current, last_change, now) ==
    IF dvent # current THEN
        IF DebounceOpen(last_change, now)
        THEN (IF dvent THEN "activate" ELSE "deactivate")
        ELSE "none"
    ELSE "none"

\* the command the vent control block issues
VentControl(avg_aqi, dvent, current, last_change, now) ==
    IF avg_aqi > Fx(AQI_THRESHOLD) /\ current THEN "deactivate"
    ELSE IF dvent # current THEN
        IF DebounceOpen(last_change, now)
        THEN (IF dvent THEN "activate" ELSE "deactivate")
        ELSE "none"
    ELSE "none"

\* a dehumidifier control block that only ever commands a line that never
\* changed
DehumControlOnlyFresh(ddehum, current, last_change, now) ==
    IF ddehum # current /\ last_change = None
    THEN (IF ddehum THEN "activate" ELSE "deactivate")
    ELSE "none"

\* a dehumidifier control block that commands whenever the debounce timer
\* is open, changed or not
DehumControlEager(ddehum, current, last_change, now) ==
    IF DebounceOpen(last_change, now)
    THEN (IF ddehum THEN "activate" ELSE "deactivate")
    ELSE "none"

\* the command the dehumidifier control block issues
DehumControl(ddehum, current, last_change, now) ==
    IF ddehum # current THEN
        IF DebounceOpen(last_change, now)
        THEN (IF ddehum THEN "activate" ELSE "deactivate")
        ELSE "none"
    ELSE "none"

\* a last-change stamp that is never taken
StampAfterKeep(cmd, last_change, now) == last_change

\* self._last_vent_change / self._last_dehum_change after the control block:
\* now where a command was issued, else as before
StampAfter(cmd, last_change, now) ==
    IF cmd # "none" THEN now ELSE last_change

ApplyCmd(p, pin, cmd) ==
    IF cmd = "activate" THEN turn_on(p, pin)
    ELSE IF cmd = "deactivate" THEN turn_off(p, pin)
    ELSE p

(* ------------------------------------------------------------------ *)
(* Initial state: after VentDehumidifyStateMachine.__init__            *)
(* ------------------------------------------------------------------ *)

\* the constructor arguments of the engine that __main__ creates
DefaultConfig ==
    [smoothing_samples |-> smoothing_samples,
     limited_on_s |-> limited_on_s,
     limited_off_s |-> limited_off_s]

\* the fields of a new engine and of a new controller
EngineInit ==
    /\ clock = 0
    /\ aqi_hist = <<>> /\ hum_hist = <<>> /\ temp_hist = <<>>
    /\ indoor_temp_hist = <<>> /\ indoor_hum_hist = <<>>
    /\ last_vent_change = None /\ last_dehum_change = None
    /\ limited_cycle_start = None /\ limited_mode = FALSE
    /\ quick_vent_start = None /\ quick_vent_mode = FALSE
    /\ pins = (vent_pin :> 0) @@ (dehum_pin :> 0)
    /\ outdoor_ok = FALSE /\ indoor_read = FALSE /\ indoor_ok = FALSE
    /\ arg_humidity = None /\ arg_temperature = None
    /\ indoor_temperature = None /\ indoor_humidity = None
    /\ vent_rule = "init" /\ desired_vent = FALSE /\ desired_dehum = FALSE
    /\ vent_cmd = "none" /\ dehum_cmd = "none"
    /\ vent_recent = FALSE /\ dehum_recent = FALSE /\ had_mode = FALSE
    /\ vent_flip_at = None /\ dehum_flip_at = None

\* the driver object exists and was not cleaned up, the indoor sensor object
\* holds no reading, no change is held back
RestInit ==
    /\ held = {}
    /\ gpio_exists = TRUE /\ cleanups = 0
    /\ dht_temperature = None /\ dht_humidity = None
    /\ dht_last_reading = None /\ attempts = 0

Init ==
    /\ RestInit
    /\ cfg = DefaultConfig /\ pc = "loop" /\ fault = "none"
    /\ pushed = <<>> /\ commands = <<>>
    /\ EngineInit

(* ------------------------------------------------------------------ *)
(* update()                                                            *)
(* ------------------------------------------------------------------ *)

\* an abandoned cycle that still closes the vent
UpdateOutdoorFailedCloses(dt) ==
    /\ clock + dt <= MaxTime
    /\ clock' = clock + dt
    /\ outdoor_ok' = FALSE
    /\ indoor_read' = FALSE /\ indoor_ok' = FALSE
    /\ arg_humidity' = None /\ arg_temperature' = None
    /\ indoor_temperature' = None /\ indoor_humidity' = None
    /\ vent_rule' = "abort" /\ desired_vent' = FALSE /\ desired_dehum' = FALSE
    /\ vent_cmd' = "none" /\ dehum_cmd' = "none"
    /\ vent_recent' = FALSE /\ dehum_recent' = FALSE /\ had_mode' = FALSE
    /\ pins' = turn_off(pins, vent_pin)
    /\ UNCHANGED <<buffers, modes, stamps, flips>>

\* self.aqi.update() returned False: the cycle is abandoned
UpdateOutdoorFailed(dt) ==
    /\ clock + dt <= MaxTime
    /\ clock' = clock + dt
    /\ outdoor_ok' = FALSE
    /\ indoor_read' = FALSE /\ indoor_ok' = FALSE
    /\ arg_humidity' = None /\ arg_temperature' = None
    /\ indoor_temperature' = None /\ indoor_humidity' = None
    /\ vent_rule' = "abort" /\ desired_vent' = FALSE /\ desired_dehum' = FALSE
    /\ vent_cmd' = "none" /\ dehum_cmd' = "none"
    /\ vent_recent' = FALSE /\ dehum_recent' = FALSE /\ had_mode' = FALSE
    /\ UNCHANGED <<engine, flips>>

\* the rest of update(): out is the outdoor reading, dht the result of
\* indoor_sensor.read(), args the caller's arguments
UpdateCycle(dt, out, dht, args) ==
    LET now == clock + dt
        aqi2 == DequeAppend(aqi_hist, out.aqi)
        hum2 == DequeAppend(hum_hist, out.hum)
        temp2 == DequeAppend(temp_hist, out.temp)
        avg_aqi == _avg(aqi2)
        avg_outdoor_hum == _avg(hum2)
        avg_outdoor_temp == _avg(temp2)
        ok == dht.ok
        arg_h == args.hum
        arg_t == args.temp
        itemp2 == IF ok THEN DequeAppend(indoor_temp_hist, temperature_f(dht.c))
                  ELSE indoor_temp_hist
        ihum2 == IF ok THEN DequeAppend(indoor_hum_hist, dht.hum)
                 ELSE indoor_hum_hist
        use_hist == ok \/ (Len(itemp2) > 0 /\ Len(ihum2) > 0)
        indoor_t == IndoorValue(use_hist, itemp2, arg_t, FallbackTemperature)
        indoor_h == IndoorValue(use_hist, ihum2, arg_h, FallbackHumidity)
        rule == VentRule(avg_aqi, avg_outdoor_hum, avg_outdoor_temp, indoor_t)
        m == ModesAfter(rule, now)
        dvent == DesiredVent(rule, m, now)
        ddehum == DesiredDehum(indoor_h, indoor_t, avg_outdoor_temp, dvent)
        current_vent_state == get_vent_state(pins)
        current_dehum_state == get_dehumidifier_state(pins)
        vcmd == VentControl(avg_aqi, dvent, current_vent_state, last_vent_change, now)
        dcmd == DehumControl(ddehum, current_dehum_state, last_dehum_change, now)
        pins2 == ApplyCmd(ApplyCmd(pins, vent_pin, vcmd), dehum_pin, dcmd)
    IN  /\ now <= MaxTime
        /\ clock' = now
        /\ aqi_hist' = aqi2 /\ hum_hist' = hum2 /\ temp_hist' = temp2
        /\ indoor_temp_hist' = itemp2 /\ indoor_hum_hist' = ihum2
        /\ limited_mode' = m.limited_mode
        /\ limited_cycle_start' = m.limited_cycle_start
        /\ quick_vent_mode' = m.quick_vent_mode
        /\ quick_vent_start' = m.quick_vent_start
        /\ pins' = pins2
        /\ last_vent_change' = StampAfter(vcmd, last_vent_change, now)
        /\ last_dehum_change' = StampAfter(dcmd, last_dehum_change, now)
        /\ outdoor_ok' = TRUE
        /\ indoor_read' = TRUE /\ indoor_ok' = ok
        /\ arg_humidity' = arg_h /\ arg_temperature' = arg_t
        /\ indoor_temperature' = indoor_t /\ indoor_humidity' = indoor_h
        /\ vent_rule' = rule /\ desired_vent' = dvent /\ desired_dehum' = ddehum
        /\ vent_cmd' = vcmd /\ dehum_cmd' = dcmd
        /\ vent_recent' = ~DebounceOpen(last_vent_change, now)
        /\ dehum_recent' = ~DebounceOpen(last_dehum_change, now)
        /\ had_mode' = (quick_vent_start # None \/ limited_cycle_start # None)
        /\ vent_flip_at' = IF pins2[vent_pin] # pins[vent_pin] THEN now ELSE vent_flip_at
        /\ dehum_flip_at' = IF pins2[dehum_pin] # pins[dehum_pin] THEN now ELSE dehum_flip_at

\* update() overwrites its arguments after a successful indoor read, so
\* their values are enumerated only for the cycles whose indoor read failed
ArgsThatMatter(dht) ==
    IF ~dht.ok
    THEN CallerArgs
    ELSE {[hum |-> None, temp |-> None]}

UpdateFail ==
    /\ pc = "loop"
    /\ \E dt \in Elapse : UpdateOutdoorFailed(dt)
    /\ fault' = "none"
    /\ UNCHANGED <<cfg, pc, logs, rest>>

UpdateOk ==
    /\ pc = "loop"
    /\ \E dt \in Elapse, out \in OutdoorReadings, dht \in IndoorReadings :
           \E args \in ArgsThatMatter(dht) :
               UpdateCycle(dt, out, dht, args)
    /\ fault' = "none"
    /\ UNCHANGED <<cfg, pc, logs, rest>>

Next == UpdateFail \/ UpdateOk

Spec == Init /\ [][Next]_vars

(* ------------------------------------------------------------------ *)
(* One smoothing buffer on its own                                     *)
(* ------------------------------------------------------------------ *)

\* a bounded buffer that, once full, drops the new sample
deque_append_keep_old(n, d, x) ==
    IF Len(d) < n THEN Append(d, x) ELSE d

\* deque(maxlen=n).append(x), n >= 0
deque_append(n, d, x) ==
    IF n = 0 THEN <<>>
    ELSE IF Len(d) < n THEN Append(d, x)
    ELSE Append(Tail(d), x)

\* values appended to the buffer
Samples == {10, 40, 80}

\* window sizes for which deque(maxlen=n) can be built and whose lengths
\* divide Scale
Windows == 0..smoothing_samples

InitBuf ==
    /\ RestInit
    /\ cfg \in {[DefaultConfig EXCEPT !.smoothing_samples = n] : n \in Windows}
    /\ pc = "loop" /\ fault = "none"
    /\ pushed = <<>> /\ commands = <<>>
    /\ EngineInit

\* self._aqi_hist.append(x)
Push(x) ==
    /\ Len(pushed) < MaxPushes
    /\ aqi_hist' = deque_append(cfg.smoothing_samples, aqi_hist, x)
    /\ pushed' = Append(pushed, x)
    /\ UNCHANGED <<clock, hum_hist, temp_hist, indoor_temp_hist, indoor_hum_hist,
                   modes, stamps, pins, cycle, flips, program, commands,
                   rest>>

NextBuf == \E x \in Samples : Push(x)

SpecBuf == InitBuf /\ [][NextBuf]_vars

(* ------------------------------------------------------------------ *)
(* The controller on its own: any sequence of commands                 *)
(* ------------------------------------------------------------------ *)

activate_vent ==
    /\ Len(commands) < MaxCmds
    /\ pins' = turn_on(pins, vent_pin)
    /\ commands' = Append(commands, [op |-> "activate", pin |-> vent_pin])
    /\ UNCHANGED <<clock, buffers, modes, stamps, cycle, flips, program, pushed, rest>>

deactivate_vent ==
    /\ Len(commands) < MaxCmds
    /\ pins' = turn_off(pins, vent_pin)
    /\ commands' = Append(commands, [op |-> "deactivate", pin |-> vent_pin])
    /\ UNCHANGED <<clock, buffers, modes, stamps, cycle, flips, program, pushed, rest>>

activate_dehumidifier ==
    /\ Len(commands) < MaxCmds
    /\ pins' = turn_on(pins, dehum_pin)
    /\ commands' = Append(commands, [op |-> "activate", pin |-> dehum_pin])
    /\ UNCHANGED <<clock, buffers, modes, stamps, cycle, flips, program, pushed, rest>>

deactivate_dehumidifier ==
    /\ Len(commands) < MaxCmds
    /\ pins' = turn_off(pins, dehum_pin)
    /\ commands' = Append(commands, [op |-> "deactivate", pin |-> dehum_pin])
    /\ UNCHANGED <<clock, buffers, modes, stamps, cycle, flips, program, pushed, rest>>

NextLines ==
    \/ activate_vent
    \/ deactivate_vent
    \/ activate_dehumidifier
    \/ deactivate_dehumidifier

SpecLines == Init /\ [][NextLines]_vars

(* ------------------------------------------------------------------ *)
(* update() calls that end in an exception                             *)
(* ------------------------------------------------------------------ *)

\* state_machine.update() as the polling loop calls it
NoArgs == [hum |-> None, temp |-> None]

\* what update() computes from the engine's fields when the engine was built
\* with the constructor arguments c; zero_div tells that line 768 divides
\* by a cycle length of zero
Decide(c, now, out, dht, args) ==
    LET n == c.smoothing_samples
        aqi2 == deque_append(n, aqi_hist, out.aqi)
        hum2 == deque_append(n, hum_hist, out.hum)
        temp2 == deque_append(n, temp_hist, out.temp)
        itemp2 == IF dht.ok
                  THEN deque_append(n, indoor_temp_hist, temperature_f(dht.c))
                  ELSE indoor_temp_hist
        ihum2 == IF dht.ok THEN deque_append(n, indoor_hum_hist, dht.hum)
                 ELSE indoor_hum_hist
        use_hist == dht.ok \/ (Len(itemp2) > 0 /\ Len(ihum2) > 0)
        indoor_t == IndoorValue(use_hist, itemp2, args.temp, FallbackTemperature)
        indoor_h == IndoorValue(use_hist, ihum2, args.hum, FallbackHumidity)
        rule == VentRule(_avg(aqi2), _avg(hum2), _avg(temp2), indoor_t)
        m == ModesAfter(rule, now)
        cycle_len == c.limited_on_s + c.limited_off_s
        zero_div == rule = "limited" /\ cycle_len = 0
        dvent == IF rule # "limited" THEN DesiredVent(rule, m, now)
                 ELSE IF zero_div THEN FALSE
                 ELSE PhaseOn(m.limited_cycle_start, now, cycle_len, c.limited_on_s)
        ddehum == DesiredDehum(indoor_h, indoor_t, _avg(temp2), dvent)
    IN  [aqi |-> aqi2, hum |-> hum2, temp |-> temp2,
         itemp |-> itemp2, ihum |-> ihum2,
         indoor_t |-> indoor_t, indoor_h |-> indoor_h,
         rule |-> rule, m |-> m, zero_div |-> zero_div,
         dvent |-> dvent, ddehum |-> ddehum,
         vcmd |-> VentControl(_avg(aqi2), dvent, get_vent_state(pins),
                              last_vent_change, now),
         dcmd |-> DehumControl(ddehum, get_dehumidifier_state(pins),
                               last_dehum_change, now)]

\* one update() call of an engine built with the arguments cfg that runs up
\* to the place stop: it returns ("none"), the limited-cycle modulo divides
\* by zero ("limited"), or GPIO.output raises in the vent command ("vent")
\* or in the dehumidifier command ("dehum").  Everything assigned before
\* that place is kept, nothing after it is executed.
UpdateUpTo(now, out, dht, stop) ==
    LET r == Decide(cfg, now, out, dht, NoArgs)
        decided == stop # "limited"
        vent_done == stop \in {"none", "dehum"}
        dehum_done == stop = "none"
        vcmd == IF decided THEN r.vcmd ELSE "none"
        dcmd == IF decided /\ vent_done THEN r.dcmd ELSE "none"
        pins1 == IF vent_done THEN ApplyCmd(pins, vent_pin, vcmd) ELSE pins
        pins2 == IF dehum_done THEN ApplyCmd(pins1, dehum_pin, dcmd) ELSE pins1
    IN  /\ (stop = "limited") <=> r.zero_div
        /\ stop = "vent" => r.vcmd # "none"
        /\ stop = "dehum" => r.dcmd # "none"
        /\ clock' = now
        /\ aqi_hist' = r.aqi /\ hum_hist' = r.hum /\ temp_hist' = r.temp
        /\ indoor_temp_hist' = r.itemp /\ indoor_hum_hist' = r.ihum
        /\ limited_mode' = r.m.limited_mode
        /\ limited_cycle_start' = r.m.limited_cycle_start
        /\ quick_vent_mode' = r.m.quick_vent_mode
        /\ quick_vent_start' = r.m.quick_vent_start
        /\ pins' = pins2
        /\ last_vent_change' =
               IF vent_done /\ vcmd # "none" THEN now ELSE last_vent_change
        /\ last_dehum_change' =
               IF dehum_done /\ dcmd # "none" THEN now ELSE last_dehum_change
        /\ outdoor_ok' = TRUE
        /\ indoor_read' = TRUE /\ indoor_ok' = dht.ok
        /\ arg_humidity' = None /\ arg_temperature' = None
        /\ indoor_temperature' = r.indoor_t /\ indoor_humidity' = r.indoor_h
        /\ vent_rule' = r.rule
        /\ desired_vent' = r.dvent
        /\ desired_dehum' = (decided /\ r.ddehum)
        /\ vent_cmd' = vcmd /\ dehum_cmd' = dcmd
        /\ vent_recent' = ~DebounceOpen(last_vent_change, now)
        /\ dehum_recent' = ~DebounceOpen(last_dehum_change, now)
        /\ had_mode' = (quick_vent_start # None \/ limited_cycle_start # None)
        /\ vent_flip_at' = IF pins2[vent_pin] # pins[vent_pin] THEN now ELSE vent_flip_at
        /\ dehum_flip_at' = IF pins2[dehum_pin] # pins[dehum_pin] THEN now ELSE dehum_flip_at

(* ------------------------------------------------------------------ *)
(* The polling loop with a faulty line driver                          *)
(* ------------------------------------------------------------------ *)

\* an iteration whose outdoor read fails
LoopOutdoorFailed ==
    /\ pc = "loop"
    /\ \E dt \in Elapse : clock + dt <= MaxLoopTime /\ UpdateOutdoorFailed(dt)
    /\ fault' = "none"
    /\ UNCHANGED <<cfg, pc, logs, rest>>

\* an iteration without a driver fault
LoopCycle ==
    /\ pc = "loop"
    /\ \E dt \in Elapse, out \in OutdoorReadings, dht \in IndoorReadings :
           clock + dt <= MaxLoopTime /\ UpdateCycle(dt, out, dht, NoArgs)
    /\ fault' = "none"
    /\ UNCHANGED <<cfg, pc, logs, rest>>

\* GPIO.input raises inside read_pin: the bare except returns the level the
\* controller tracks, which is the level it last drove, and update() goes on
LoopCycleQueryFault ==
    /\ pc = "loop"
    /\ \E dt \in Elapse, out \in OutdoorReadings, dht \in IndoorReadings :
           clock + dt <= MaxLoopTime /\ UpdateCycle(dt, out, dht, NoArgs)
    /\ fault' = "query"
    /\ UNCHANGED <<cfg, pc, logs, rest>>

\* GPIO.output raises inside turn_on or turn_off: nothing in update() or in
\* the while loop catches it, so it reaches "except Exception" after the
\* loop
LoopCycleCommandFault ==
    /\ pc = "loop"
    /\ \E dt \in Elapse, out \in OutdoorReadings, dht \in IndoorReadings,
          stop \in {"vent", "dehum"} :
           clock + dt <= MaxLoopTime /\ UpdateUpTo(clock + dt, out, dht, stop)
    /\ pc' = "ended"
    /\ fault' = "command"
    /\ UNCHANGED <<cfg, logs, rest>>

NextLoop ==
    \/ LoopOutdoorFailed
    \/ LoopCycle
    \/ LoopCycleQueryFault
    \/ LoopCycleCommandFault

SpecLoop == Init /\ [][NextLoop]_vars

(* ------------------------------------------------------------------ *)
(* Construction with arbitrary arguments, and the first update() calls *)
(* ------------------------------------------------------------------ *)

\* cfg before __init__ has run
NoConfig == [smoothing_samples |-> 0, limited_on_s |-> 0, limited_off_s |-> 0]

\* arguments handed to __init__
ConfigArgs ==
    [smoothing_samples : (0 - 1)..smoothing_samples,
     limited_on_s : {0, limited_on_s},
     limited_off_s : {0, limited_off_s}]

InitCtor ==
    /\ RestInit
    /\ cfg = NoConfig /\ pc = "start" /\ fault = "none"
    /\ pushed = <<>> /\ commands = <<>>
    /\ EngineInit

\* VentDehumidifyStateMachine.__init__: the arguments are stored as given;
\* only deque(maxlen=n) objects to one, a negative n
Construct(c) ==
    /\ pc = "start"
    /\ IF c.smoothing_samples < 0
       THEN pc' = "ended" /\ fault' = "ValueError" /\ cfg' = cfg
       ELSE pc' = "loop" /\ fault' = "none" /\ cfg' = c
    /\ UNCHANGED <<clock, engine, cycle, flips, logs, rest>>

\* an iteration of the constructed engine whose outdoor read fails
CtorOutdoorFailed ==
    /\ pc = "loop"
    /\ \E dt \in Elapse : clock + dt <= MaxCtorTime /\ UpdateOutdoorFailed(dt)
    /\ fault' = "none"
    /\ UNCHANGED <<cfg, pc, logs, rest>>

\* an iteration of the constructed engine that returns
CtorCycle ==
    /\ pc = "loop"
    /\ \E dt \in Elapse, out \in OutdoorReadings, dht \in IndoorReadings :
           clock + dt <= MaxCtorTime /\ UpdateUpTo(clock + dt, out, dht, "none")
    /\ fault' = "none"
    /\ UNCHANGED <<cfg, pc, logs, rest>>

\* an iteration of the constructed engine that divides by a cycle length of
\* zero
CtorCycleZeroDivision ==
    /\ pc = "loop"
    /\ \E dt \in Elapse, out \in OutdoorReadings, dht \in IndoorReadings :
           clock + dt <= MaxCtorTime /\ UpdateUpTo(clock + dt, out, dht, "limited")
    /\ pc' = "ended"
    /\ fault' = "ZeroDivisionError"
    /\ UNCHANGED <<cfg, logs, rest>>

NextCtor ==
    \/ \E c \in ConfigArgs : Construct(c)
    \/ CtorOutdoorFailed
    \/ CtorCycle
    \/ CtorCycleZeroDivision

SpecCtor == InitCtor /\ [][NextCtor]_vars

(* ------------------------------------------------------------------ *)
(* The update cycles, remembering which changes were held back         *)
(* ------------------------------------------------------------------ *)

\* the lines for which the last cycle wanted another level than the line
\* had and issued no command
HeldBack ==
    (IF outdoor_ok /\ desired_vent # (pins[vent_pin] = 1) /\ vent_cmd = "none"
     THEN {"vent"} ELSE {})
    \cup
    (IF outdoor_ok /\ desired_dehum # (pins[dehum_pin] = 1) /\ dehum_cmd = "none"
     THEN {"dehum"} ELSE {})

\* an abandoned cycle ends every run of cycles with outdoor readings
DebounceFail ==
    /\ pc = "loop"
    /\ \E dt \in Elapse : UpdateOutdoorFailed(dt)
    /\ fault' = "none"
    /\ held' = {}
    /\ UNCHANGED <<cfg, pc, logs, driver, probe>>

DebounceOk ==
    /\ pc = "loop"
    /\ \E dt \in Elapse, out \in OutdoorReadings, dht \in IndoorReadings :
           \E args \in ArgsThatMatter(dht) :
               UpdateCycle(dt, out, dht, args)
    /\ fault' = "none"
    /\ held' = {l \in HeldBack :
                  \/ l = "vent" /\ desired_vent' = desired_vent
                  \/ l = "dehum" /\ desired_dehum' = desired_dehum}
    /\ UNCHANGED <<cfg, pc, logs, driver, probe>>

NextDebounce == DebounceFail \/ DebounceOk

SpecDebounce == Init /\ [][NextDebounce]_vars

(* ------------------------------------------------------------------ *)
(* __main__: set-up, polling loop, handlers and the finally block      *)
(* ------------------------------------------------------------------ *)

\* a finally block that releases nothing
CleanupsAfterNone(exists, n) == n

\* the finally block: gpio.cleanup() when 'gpio' in locals()
CleanupsAfter(exists, n) == IF exists THEN n + 1 ELSE n

\* the program has entered the try block and created nothing yet
InitMain ==
    /\ held = {}
    /\ gpio_exists = FALSE /\ cleanups = 0
    /\ dht_temperature = None /\ dht_humidity = None
    /\ dht_last_reading = None /\ attempts = 0
    /\ cfg = DefaultConfig /\ pc = "main" /\ fault = "none"
    /\ pushed = <<>> /\ commands = <<>>
    /\ EngineInit

\* gpio = GPIOController(): the name is bound only when the constructor
\* returns
MainCreateDriver(raises) ==
    /\ pc = "main"
    /\ IF raises
       THEN pc' = "ended" /\ fault' = "driver" /\ gpio_exists' = FALSE
       ELSE pc' = "setup" /\ fault' = "none" /\ gpio_exists' = TRUE
    /\ UNCHANGED <<clock, engine, cycle, flips, cfg, logs, held, cleanups, probe>>

\* the sensor object, the controller (GPIO.setup of both pins) and the
\* engine are created; any of the constructors may raise
MainSetup(raises) ==
    /\ pc = "setup"
    /\ IF raises
       THEN pc' = "ended" /\ fault' = "setup"
       ELSE pc' = "loop" /\ fault' = "none"
    /\ UNCHANGED <<clock, engine, cycle, flips, cfg, logs, rest>>

\* Ctrl-C anywhere inside the try block
MainInterrupt ==
    /\ pc \in {"main", "setup", "loop"}
    /\ pc' = "ended" /\ fault' = "KeyboardInterrupt"
    /\ UNCHANGED <<clock, engine, cycle, flips, cfg, logs, rest>>

\* the handler has logged; the finally block runs and the program ends
MainFinally ==
    /\ pc = "ended"
    /\ cleanups' = CleanupsAfter(gpio_exists, cleanups)
    /\ pc' = "exited"
    /\ UNCHANGED <<clock, engine, cycle, flips, cfg, fault, logs, held,
                   gpio_exists, probe>>

NextMain ==
    \/ \E raises \in BOOLEAN : MainCreateDriver(raises)
    \/ \E raises \in BOOLEAN : MainSetup(raises)
    \/ LoopOutdoorFailed
    \/ LoopCycle
    \/ LoopCycleQueryFault
    \/ LoopCycleCommandFault
    \/ MainInterrupt
    \/ MainFinally

\* a handler always falls through to the finally block
SpecMain == InitMain /\ [][NextMain]_vars /\ WF_vars(MainFinally)

(* ------------------------------------------------------------------ *)
(* The two data sources behind update()                                *)
(* ------------------------------------------------------------------ *)

\* a fetch whose JSON decoding error is not handled
PurpleAirUpdateJsonUncaught(outcome) ==
    IF outcome = "ok" THEN "true"
    ELSE IF outcome = "RequestException" THEN "false"
    ELSE "raise"

\* what requests.get / raise_for_status / response.json() can do
FetchOutcomes == {"ok", "RequestException", "JSONDecodeError"}

\* PurpleAirSensor.update: "true", "false", or "raise" when the exception
\* leaves the method
PurpleAirUpdate(outcome) ==
    IF outcome = "ok" THEN "true"
    ELSE IF outcome \in {"RequestException", "JSONDecodeError"} THEN "false"
    ELSE "raise"

\* what one self.dht11_instance.read() can deliver: an exception, a result
\* that is not valid, or a valid result with these values
ProbeResults ==
    { [kind |-> "exception", c |-> 0, hum |-> 0],
      [kind |-> "invalid", c |-> 0, hum |-> 0],
      [kind |-> "valid", c |-> 20, hum |-> 40],
      [kind |-> "valid", c |-> 30, hum |-> 65],
      [kind |-> "valid", c |-> 20, hum |-> 120],
      [kind |-> "valid", c |-> 85, hum |-> 40] }

\* a range test that lets every reading through
dht_in_range_any(c, hum) == TRUE

\* 0 <= result.humidity <= 100 and -40 <= result.temperature <= 80
dht_in_range(c, hum) ==
    /\ 0 <= hum /\ hum <= 100
    /\ (0 - 40) <= c /\ c <= 80

\* the result is stored by read()
Accepted(res) == res.kind = "valid" /\ dht_in_range(res.c, res.hum)

\* why read() passes a result over
Rejection(res) ==
    IF res.kind = "valid" THEN "dht11_out_of_range" ELSE "dht11_" \o res.kind

\* the results the probe delivers during one read(): read() stops at the
\* first result it stores and after MaxAttempts results
ProbeRuns ==
    {run \in UNION {[1..n -> ProbeResults] : n \in 1..MaxAttempts} :
        /\ \A i \in 1..(Len(run) - 1) : ~Accepted(run[i])
        /\ Len(run) < MaxAttempts => Accepted(run[Len(run)])}

\* read() answers from the stored fields without probing
TooSoon(now) ==
    dht_last_reading # None /\ now - dht_last_reading < read_interval

\* the probe results a read() at time now can meet
ProbeRunsAt(now) == IF TooSoon(now) THEN {<<>>} ELSE ProbeRuns

\* DHT11Sensor.read() at time now: the value returned, the fields after the
\* call, the number of probe reads and the last rejection
DhtRead(now, run) ==
    IF TooSoon(now)
    THEN [ok |-> dht_temperature # None,
          c |-> dht_temperature, hum |-> dht_humidity,
          last |-> dht_last_reading, attempts |-> 0, failure |-> "none"]
    ELSE IF Accepted(run[Len(run)])
    THEN [ok |-> TRUE,
          c |-> run[Len(run)].c, hum |-> run[Len(run)].hum,
          last |-> now, attempts |-> Len(run),
          failure |-> IF Len(run) = 1 THEN "none" ELSE Rejection(run[Len(run) - 1])]
    ELSE [ok |-> FALSE,
          c |-> dht_temperature, hum |-> dht_humidity,
          last |-> dht_last_reading, attempts |-> Len(run),
          failure |-> Rejection(run[Len(run)])]

\* seconds between two update() calls, below and at the probe's read interval
SensorElapse == {1, 2}

\* the outdoor reading of the cycles in which the probe is studied
SensorOutdoor == {[aqi |-> 10, hum |-> 50, temp |-> 68]}

\* the outdoor fetch does not deliver a reading
SensorsOutdoorFailed ==
    /\ pc = "loop"
    /\ \E dt \in SensorElapse, outcome \in FetchOutcomes \ {"ok"} :
           /\ clock + dt <= MaxSensorTime
           /\ IF PurpleAirUpdate(outcome) = "false"
              THEN /\ UpdateOutdoorFailed(dt)
                   /\ pc' = pc
              ELSE /\ clock' = clock + dt
                   /\ pc' = "ended"
                   /\ UNCHANGED <<engine, cycle, flips>>
           /\ fault' = outcome
    /\ UNCHANGED <<cfg, logs, rest>>

\* the outdoor fetch delivers a reading and the indoor sensor is read
SensorsCycle ==
    /\ pc = "loop"
    /\ PurpleAirUpdate("ok") = "true"
    /\ \E dt \in SensorElapse, out \in SensorOutdoor :
         \E run \in ProbeRunsAt(clock + dt) :
           LET r == DhtRead(clock + dt, run)
               available == r.c # None /\ r.hum # None
           IN  /\ clock + dt <= MaxSensorTime
               /\ UpdateCycle(dt, out,
                              [ok |-> r.ok /\ available, c |-> r.c, hum |-> r.hum],
                              NoArgs)
               /\ dht_temperature' = r.c /\ dht_humidity' = r.hum
               /\ dht_last_reading' = r.last /\ attempts' = r.attempts
               /\ fault' = r.failure
    /\ UNCHANGED <<cfg, pc, logs, held, driver>>

NextSensors == SensorsOutdoorFailed \/ SensorsCycle

SpecSensors == Init /\ [][NextSensors]_vars

(* ------------------------------------------------------------------ *)
(* Properties                                                          *)
(* ------------------------------------------------------------------ *)

\* an update cycle has just run
CycleStep == clock' # clock

AqiAbove == _avg(aqi_hist) > Fx(AQI_THRESHOLD)
HumAbove == _avg(hum_hist) > Fx(MAX_OUTDOOR_HUMIDITY)
VentOn == pins[vent_pin] = 1
DehumOn == pins[dehum_pin] = 1

\* C1: after a cycle whose outdoor read succeeded and whose averaged AQI is
\* above the threshold, the vent line is OFF, whatever it was before and
\* however recently it changed.
C1_AqiClosesVent == (outdoor_ok /\ AqiAbove) => ~VentOn

\* the AQI closure of a vent that changed less than min_change_interval_s ago
C1_Witness ==
    outdoor_ok /\ AqiAbove /\ vent_cmd = "deactivate" /\ vent_recent /\ ~VentOn

\* C2: a cycle whose outdoor read fails leaves both lines, the five buffers,
\* the cycling-mode flags and start times and both last-change stamps as
\* they were, and does not read the indoor sensor.
C2_OutdoorFailureChangesNothing ==
    [][(CycleStep /\ ~outdoor_ok') =>
         (/\ pins' = pins
          /\ buffers' = buffers
          /\ modes' = modes
          /\ stamps' = stamps
          /\ ~indoor_read')]_vars

\* a failed cycle of an engine that holds samples, an open vent and a mode
C2_Witness ==
    /\ ~outdoor_ok /\ vent_rule = "abort"
    /\ Len(aqi_hist) > 0 /\ Len(indoor_hum_hist) > 0
    /\ VentOn /\ last_vent_change # None /\ quick_vent_mode

\* C3: two level changes of the same line are at least
\* min_change_interval_s apart, unless the later one is a vent closure in a
\* cycle whose averaged AQI is above the threshold.
C3_TransitionsSpaced ==
    [][/\ (pins'[vent_pin] # pins[vent_pin] /\ vent_flip_at # None
            /\ ~(AqiAbove' /\ pins'[vent_pin] = 0))
           => clock' - vent_flip_at >= min_change_interval_s
       /\ (pins'[dehum_pin] # pins[dehum_pin] /\ dehum_flip_at # None)
           => clock' - dehum_flip_at >= min_change_interval_s]_vars

\* a desired vent change held back by the debounce timer, and a desired
\* dehumidifier change held back likewise
C3_Witness ==
    /\ outdoor_ok /\ desired_vent # VentOn /\ vent_cmd = "none" /\ vent_recent
    /\ desired_dehum # DehumOn /\ dehum_cmd = "none" /\ dehum_recent

\* C4: outside the AQI emergency closure, a line is commanded exactly when
\* its desired state differs from the state queried in the cycle and its
\* last change is unset or at least min_change_interval_s old; the command
\* is activate for desired ON and deactivate for desired OFF.
C4_CommandIffChangeAndDebounceOpen ==
    [][(CycleStep /\ outdoor_ok') =>
         (/\ ~(AqiAbove' /\ VentOn) =>
                /\ (vent_cmd' # "none") <=>
                       (/\ desired_vent' # VentOn
                        /\ (last_vent_change = None
                             \/ clock' - last_vent_change >= min_change_interval_s))
                /\ (vent_cmd' # "none") =>
                       (vent_cmd' = IF desired_vent' THEN "activate" ELSE "deactivate")
          /\ (dehum_cmd' # "none") <=>
                 (/\ desired_dehum' # DehumOn
                  /\ (last_dehum_change = None
                       \/ clock' - last_dehum_change >= min_change_interval_s))
          /\ (dehum_cmd' # "none") =>
                 (dehum_cmd' = IF desired_dehum' THEN "activate" ELSE "deactivate")
          /\ vent_cmd' = "activate" => pins'[vent_pin] = 1
          /\ vent_cmd' = "deactivate" => pins'[vent_pin] = 0
          /\ dehum_cmd' = "activate" => pins'[dehum_pin] = 1
          /\ dehum_cmd' = "deactivate" => pins'[dehum_pin] = 0)]_vars

\* a cycle without AQI emergency that closes the vent once its debounce
\* interval has passed, while a wanted dehumidifier change is held back
C4_Witness ==
    /\ outdoor_ok /\ ~AqiAbove /\ vent_cmd = "deactivate" /\ ~vent_recent
    /\ desired_dehum # DehumOn /\ dehum_cmd = "none" /\ dehum_recent

\* C5 as claimed: after a cycle whose outdoor read succeeded, with averaged
\* outdoor humidity above the maximum and averaged AQI not above the
\* threshold, the vent line is OFF.
C5_Original == (outdoor_ok /\ HumAbove /\ ~AqiAbove) => ~VentOn

\* C5 amended: in such a cycle the desired vent state is OFF, and the vent
\* line is OFF at the end of the cycle unless it was ON and changed less
\* than min_change_interval_s before, in which case no command is issued.
C5_RainGuardThroughDebounce ==
    (outdoor_ok /\ HumAbove /\ ~AqiAbove) =>
        (/\ ~desired_vent
         /\ VentOn => (vent_recent /\ vent_cmd = "none"))

\* the rain guard closing an open vent
C5_Witness ==
    outdoor_ok /\ HumAbove /\ ~AqiAbove /\ vent_cmd = "deactivate" /\ ~VentOn

\* C6 as claimed: quick-vent mode and limited-vent mode are never both
\* active and never both hold a start time.
C6_Original ==
    /\ ~(quick_vent_mode /\ limited_mode)
    /\ ~(quick_vent_start # None /\ limited_cycle_start # None)

\* C7 as claimed: after a completed cycle that does not select quick-vent
\* (limited-vent), that mode is inactive and its start time is unset.
C7_Original ==
    outdoor_ok =>
        (/\ vent_rule # "quick" => (~quick_vent_mode /\ quick_vent_start = None)
         /\ vent_rule # "limited" => (~limited_mode /\ limited_cycle_start = None))

\* C8: in a cycle that selects the quick-vent rule with stored start T0 at
\* time T0 + t, t >= 0, the desired vent state is ON iff
\* t mod 3600 < quick_vent_s.
C8_QuickVentPhase ==
    (outdoor_ok /\ vent_rule = "quick") =>
        (/\ quick_vent_start # None
         /\ clock >= quick_vent_start
         /\ desired_vent <=> ((clock - quick_vent_start) % 3600 < quick_vent_s))

\* the ON phase of the second 60-minute cycle
C8_Witness ==
    /\ outdoor_ok /\ vent_rule = "quick" /\ desired_vent
    /\ clock - quick_vent_start >= 3600

\* C9: in a cycle that selects the limited-vent rule with stored start T0 at
\* time T0 + t, t >= 0, the desired vent state is ON iff
\* t mod (limited_on_s + limited_off_s) < limited_on_s.
C9_LimitedVentPhase ==
    (outdoor_ok /\ vent_rule = "limited") =>
        (/\ limited_cycle_start # None
         /\ clock >= limited_cycle_start
         /\ desired_vent <=>
              ((clock - limited_cycle_start) % (limited_on_s + limited_off_s) < limited_on_s))

\* the ON phase of the second limited cycle
C9_Witness ==
    /\ outdoor_ok /\ vent_rule = "limited" /\ desired_vent
    /\ clock - limited_cycle_start >= limited_on_s + limited_off_s

\* C10: when averaged AQI is not above the threshold, the averaged outdoor
\* temperature is within [min, max], averaged outdoor humidity is not above
\* the maximum and the outdoor average is strictly closer to ideal than the
\* indoor value, the desired vent state is ON and after the cycle both
\* cycling modes are inactive with both start times unset.
C10_CloserOpensAndClearsModes ==
    (/\ outdoor_ok
     /\ ~AqiAbove
     /\ _avg(temp_hist) >= Fx(MIN_OUTDOOR_TEMPERATURE_F)
     /\ _avg(temp_hist) <= Fx(MAX_OUTDOOR_TEMPERATURE_F)
     /\ ~HumAbove
     /\ Abs(_avg(temp_hist) - Fx(IDEAL_TEMPERATURE_F))
          < Abs(indoor_temperature - Fx(IDEAL_TEMPERATURE_F)))
    => (/\ desired_vent
        /\ ~quick_vent_mode /\ quick_vent_start = None
        /\ ~limited_mode /\ limited_cycle_start = None)

\* a "closer" cycle of an engine that held a cycling start time before it
C10_Witness ==
    /\ outdoor_ok /\ vent_rule = "closer" /\ desired_vent /\ had_mode
    /\ quick_vent_start = None /\ limited_cycle_start = None

\* the indoor humidity used in the cycle is above ideal and above 50%
Humid ==
    /\ indoor_humidity > Fx(IDEAL_HUMIDITY)
    /\ indoor_humidity > Fx(DehumConsiderHumidity)

\* the averaged outdoor temperature is below the ideal temperature
OutdoorCooler == _avg(temp_hist) < Fx(IDEAL_TEMPERATURE_F)

\* the indoor temperature used in the cycle is above the ideal temperature
IndoorWarmer == indoor_temperature > Fx(IDEAL_TEMPERATURE_F)

\* the outdoor average is strictly closer to ideal than the indoor value
OutdoorCloser ==
    Abs(_avg(temp_hist) - Fx(IDEAL_TEMPERATURE_F))
        < Abs(indoor_temperature - Fx(IDEAL_TEMPERATURE_F))

\* C11 as claimed: in a cycle with humid indoor air and an outdoor average
\* below ideal, the desired dehumidifier state is OFF when the desired vent
\* state is ON, the outdoor average is closer to ideal than indoor and
\* indoor is warmer than ideal, and ON otherwise; in particular ON when the
\* desired vent state is OFF.
C11_Original ==
    (outdoor_ok /\ Humid /\ OutdoorCooler) =>
        (desired_dehum <=> ~(desired_vent /\ OutdoorCloser /\ IndoorWarmer))

\* C12: in a cycle with humid indoor air and an outdoor average not below
\* ideal, the desired dehumidifier state is ON exactly when indoor is warmer
\* than ideal, the desired vent state is OFF and indoor humidity is above
\* 60%; it is OFF when the desired vent state is ON and OFF when indoor is
\* not warmer than ideal.
C12_WarmOutdoorDehum ==
    (outdoor_ok /\ Humid /\ ~OutdoorCooler) =>
        (/\ (IndoorWarmer /\ desired_vent) => ~desired_dehum
         /\ (IndoorWarmer /\ ~desired_vent) =>
                (desired_dehum <=> indoor_humidity > Fx(DehumNoVentHumidity))
         /\ ~IndoorWarmer => ~desired_dehum)

\* warm humid indoor air above 60% with the vent wanted closed: the
\* dehumidifier is switched on
C12_Witness ==
    /\ outdoor_ok /\ Humid /\ ~OutdoorCooler /\ IndoorWarmer
    /\ ~desired_vent /\ indoor_humidity > Fx(DehumNoVentHumidity)
    /\ desired_dehum /\ dehum_cmd = "activate"

\* C13: in a cycle whose indoor read fails, the indoor values used are the
\* averages of the indoor buffers when both hold samples, whatever the
\* caller supplied; otherwise they are the caller's values, with 40% and
\* 70 F for whichever the caller left out.  The cycle goes on to the vent
\* decision and the actuation.
C13_IndoorFallback ==
    (outdoor_ok /\ ~indoor_ok) =>
        (/\ indoor_read
         /\ IF Len(indoor_temp_hist) > 0 /\ Len(indoor_hum_hist) > 0
            THEN /\ indoor_temperature * Len(indoor_temp_hist)
                        = Sum(indoor_temp_hist) * Scale
                 /\ indoor_humidity * Len(indoor_hum_hist)
                        = Sum(indoor_hum_hist) * Scale
            ELSE /\ indoor_humidity =
                        Fx(IF arg_humidity = None THEN FallbackHumidity
                           ELSE arg_humidity)
                 /\ indoor_temperature =
                        Fx(IF arg_temperature = None THEN FallbackTemperature
                           ELSE arg_temperature)
         /\ vent_rule \in {"aqi", "range", "humidity", "closer", "quick", "limited"}
         /\ vent_cmd = "activate" => VentOn
         /\ vent_cmd = "deactivate" => ~VentOn)

\* a failed indoor read of an engine that holds indoor samples, with a
\* caller-supplied humidity that is passed over, in a cycle that opens the
\* vent
C13_Witness ==
    /\ outdoor_ok /\ indoor_read /\ ~indoor_ok
    /\ Len(indoor_hum_hist) > 0 /\ arg_humidity # None
    /\ indoor_humidity # Fx(arg_humidity)
    /\ vent_cmd = "activate"

\* C18: the vent is commanded open only in a cycle whose averaged AQI is
\* not above the threshold, whose averaged outdoor temperature lies within
\* [min, max] and whose averaged outdoor humidity is not above the maximum;
\* when one of the three guards fails the desired vent state is OFF and
\* neither the "closer" rule nor a duty cycle is selected.
C18_VentOpensOnlyWhenSafe ==
    /\ vent_cmd = "activate" =>
           (/\ outdoor_ok
            /\ ~AqiAbove
            /\ _avg(temp_hist) >= Fx(MIN_OUTDOOR_TEMPERATURE_F)
            /\ _avg(temp_hist) <= Fx(MAX_OUTDOOR_TEMPERATURE_F)
            /\ ~HumAbove)
    /\ (outdoor_ok /\ (\/ AqiAbove
                       \/ _avg(temp_hist) < Fx(MIN_OUTDOOR_TEMPERATURE_F)
                       \/ _avg(temp_hist) > Fx(MAX_OUTDOOR_TEMPERATURE_F)
                       \/ HumAbove)) =>
           (~desired_vent /\ vent_rule \in {"aqi", "range", "humidity"})

\* the vent opens while the window still holds a sample above the AQI
\* threshold, the average being back below it
C18_Witness ==
    /\ outdoor_ok /\ vent_cmd = "activate" /\ VentOn
    /\ \E i \in DOMAIN aqi_hist : aqi_hist[i] > AQI_THRESHOLD

\* C19: the dehumidifier is commanded on only in a cycle whose indoor
\* humidity is above the ideal humidity and above 50%; in a cycle whose
\* indoor humidity is at or below either bound the desired dehumidifier
\* state is OFF.
C19_DehumOnlyWhenHumid ==
    /\ dehum_cmd = "activate" => (outdoor_ok /\ Humid)
    /\ (outdoor_ok /\ ~Humid) => ~desired_dehum

\* the dehumidifier is switched on beside a vent that is wanted open
C19_Witness ==
    /\ outdoor_ok /\ Humid /\ desired_vent
    /\ dehum_cmd = "activate" /\ DehumOn

Min(a, b) == IF a < b THEN a ELSE b

\* C14: after k samples were pushed into a buffer of window size N, the
\* buffer holds the last min(k, N) of them in the order they were pushed,
\* its length is at most N, its average times its length is the sum of its
\* contents, and the average of an empty buffer is 0.
C14_BufferIsSlidingWindow ==
    LET N == cfg.smoothing_samples
        k == Len(pushed)
        m == Min(k, N)
    IN  /\ Len(aqi_hist) = m
        /\ Len(aqi_hist) <= N
        /\ \A i \in 1..m : aqi_hist[i] = pushed[k - m + i]
        /\ m > 0 => _avg(aqi_hist) * m = Sum(SubSeq(pushed, k - m + 1, k)) * Scale
        /\ m = 0 => _avg(aqi_hist) = 0

\* a full buffer of at least two samples that has evicted its oldest sample
\* and whose average differs from the sample pushed last
C14_Witness ==
    /\ cfg.smoothing_samples >= 2
    /\ Len(pushed) > cfg.smoothing_samples
    /\ Len(aqi_hist) = cfg.smoothing_samples
    /\ aqi_hist[1] # pushed[1]
    /\ _avg(aqi_hist) # Fx(pushed[Len(pushed)])

\* C17: a command drives its line to the commanded level and leaves the
\* other line as it was; on a line already at that level it changes
\* nothing, so a command repeated gives the state of the command given once.
C17_CommandsIdempotent ==
    [][Len(commands') > Len(commands) =>
         LET c == commands'[Len(commands')]
             level == IF c.op = "activate" THEN 1 ELSE 0
         IN  /\ pins'[c.pin] = level
             /\ \A q \in DOMAIN pins : q # c.pin => pins'[q] = pins[q]
             /\ pins[c.pin] = level => pins' = pins
             /\ (Len(commands) > 0 /\ commands[Len(commands)] = c)
                    => pins' = pins]_vars

\* activate-dehumidifier given twice in a row while the vent is ON
C17_Witness ==
    /\ Len(commands) >= 3
    /\ commands[Len(commands)] = [op |-> "activate", pin |-> dehum_pin]
    /\ commands[Len(commands) - 1] = commands[Len(commands)]
    /\ pins[vent_pin] = 1 /\ pins[dehum_pin] = 1

\* C15 as claimed: an engine exists only with a smoothing window above zero
\* and limited_on_s + limited_off_s above zero, so no update cycle leaves a
\* buffer empty after appending to it and none divides by a cycle length of
\* zero.
C15_Original ==
    /\ pc = "loop" =>
           (/\ cfg.smoothing_samples > 0
            /\ cfg.limited_on_s + cfg.limited_off_s > 0)
    /\ (pc = "loop" /\ outdoor_ok) => Len(aqi_hist) > 0
    /\ fault # "ZeroDivisionError"

\* C16 as claimed: a cycle in which the line driver raised, on a query or on
\* a command, leaves the polling loop running.
C16_Original == fault \in {"query", "command"} => pc = "loop"

\* new is old with one sample appended, the oldest sample making room when
\* the window is full
OneAppended(old, new) ==
    /\ Len(new) = Min(Len(old) + 1, smoothing_samples)
    /\ \A i \in 1..(Len(new) - 1) : new[i] = old[i + Len(old) + 1 - Len(new)]

\* C21: a cycle whose outdoor read succeeds appends one sample to each of
\* the three outdoor buffers; it appends one sample to each of the two
\* indoor buffers when the indoor read succeeded and leaves both as they
\* were when it failed; the two indoor buffers have the same length.
C21_OneSamplePerBuffer ==
    [][(CycleStep /\ outdoor_ok') =>
         (/\ OneAppended(aqi_hist, aqi_hist')
          /\ OneAppended(hum_hist, hum_hist')
          /\ OneAppended(temp_hist, temp_hist')
          /\ indoor_ok' => (/\ OneAppended(indoor_temp_hist, indoor_temp_hist')
                            /\ OneAppended(indoor_hum_hist, indoor_hum_hist'))
          /\ ~indoor_ok' => (/\ indoor_temp_hist' = indoor_temp_hist
                             /\ indoor_hum_hist' = indoor_hum_hist)
          /\ Len(indoor_temp_hist') = Len(indoor_hum_hist'))]_vars

\* a failed indoor read after a successful one: the outdoor buffers have
\* grown by a sample, the indoor buffers have not
C21_Witness ==
    /\ outdoor_ok /\ indoor_read /\ ~indoor_ok
    /\ Len(indoor_temp_hist) = 1 /\ Len(indoor_hum_hist) = 1
    /\ Len(aqi_hist) = 2 /\ Len(hum_hist) = 2 /\ Len(temp_hist) = 2
    /\ temp_hist[1] # temp_hist[2]

\* C22: a sensor failure never ends the polling loop.  When the outdoor
\* fetch fails (request error or undecodable JSON) update() learns it from a
\* false return and abandons the cycle; when the indoor read fails, an
\* exception inside the probe driver included, read() returns false and
\* the cycle goes on to its decision; in both cases the loop stays in its
\* while and nothing is raised.
C22_SensorFailureKeepsLoop ==
    /\ fault # "none" => pc = "loop"
    /\ fault \in (FetchOutcomes \ {"ok"}) => (~outdoor_ok /\ vent_rule = "abort")
    /\ (fault = "dht11_exception" /\ ~indoor_ok) =>
           (/\ outdoor_ok /\ indoor_read /\ attempts = MaxAttempts
            /\ vent_rule # "abort")
    /\ (outdoor_ok /\ indoor_read /\ ~indoor_ok) => pc = "loop"

\* a third cycle whose indoor read met an exception at its last attempt and
\* failed, after a cycle whose outdoor fetch failed: the loop is still running
C22_Witness ==
    /\ pc = "loop" /\ clock = MaxSensorTime
    /\ fault = "dht11_exception" /\ attempts = MaxAttempts
    /\ outdoor_ok /\ indoor_read /\ ~indoor_ok
    /\ Len(aqi_hist) = 2 /\ dht_temperature # None

\* C23: the indoor data source never stores an out-of-range reading.  The
\* stored humidity is within [0, 100] and the stored temperature within
\* [-40, 80] C whenever they are set; a read() makes at most 3 probe reads;
\* a read() that returns false leaves the stored temperature and humidity
\* as they were; every sample in the two indoor buffers is in range.
C23_NoOutOfRangeReading ==
    /\ [](dht_temperature # None =>
             ((0 - 40) <= dht_temperature /\ dht_temperature <= 80))
    /\ [](dht_humidity # None =>
             (0 <= dht_humidity /\ dht_humidity <= 100))
    /\ [](attempts <= MaxAttempts)
    /\ [](\A i \in 1..Len(indoor_hum_hist) :
             0 <= indoor_hum_hist[i] /\ indoor_hum_hist[i] <= 100)
    /\ [](\A i \in 1..Len(indoor_temp_hist) :
             /\ temperature_f(0 - 40) <= indoor_temp_hist[i]
             /\ indoor_temp_hist[i] <= temperature_f(80))
    /\ [][(CycleStep /\ outdoor_ok' /\ indoor_read' /\ ~indoor_ok') =>
             (/\ dht_temperature' = dht_temperature
              /\ dht_humidity' = dht_humidity
              /\ indoor_temp_hist' = indoor_temp_hist
              /\ indoor_hum_hist' = indoor_hum_hist)]_vars

\* a read() that gave up after three probe reads, the last one valid but
\* out of range, with an earlier reading still stored and one sample in
\* each indoor buffer
C23_Witness ==
    /\ outdoor_ok /\ indoor_read /\ ~indoor_ok
    /\ fault = "dht11_out_of_range" /\ attempts = MaxAttempts
    /\ dht_temperature = 30 /\ dht_humidity = 65
    /\ indoor_hum_hist = <<65>> /\ indoor_temp_hist = <<temperature_f(30)>>

\* C24: the engine commands activate only on a line that was OFF when the
\* cycle began and deactivate only on a line that was ON, the AQI closure
\* included, so every command changes the level of its line.
C24_CommandsChangeTheLine ==
    [][(CycleStep /\ outdoor_ok') =>
         (/\ vent_cmd' = "activate" => (~VentOn /\ VentOn')
          /\ vent_cmd' = "deactivate" => (VentOn /\ ~VentOn')
          /\ dehum_cmd' = "activate" => (~DehumOn /\ DehumOn')
          /\ dehum_cmd' = "deactivate" => (DehumOn /\ ~DehumOn')
          /\ vent_cmd' = "none" => VentOn' = VentOn
          /\ dehum_cmd' = "none" => DehumOn' = DehumOn)]_vars

\* a second cycle with poor air: the vent, closed by the cycle before, is
\* sent nothing
C24_Witness ==
    /\ outdoor_ok /\ AqiAbove /\ ~VentOn /\ vent_cmd = "none"
    /\ vent_flip_at # None /\ vent_flip_at < clock

\* C25: a line's last-change stamp becomes the time of the cycle in the
\* cycles that command that line, the AQI closure included, and stays as it
\* was in every other cycle, whatever happens to the other line; so the
\* vent is opened only when its stamp is unset or at least
\* min_change_interval_s old, also after an AQI closure.
C25_StampsFollowCommands ==
    [][CycleStep =>
         (/\ outdoor_ok' =>
                (/\ vent_cmd' # "none" => last_vent_change' = clock'
                 /\ vent_cmd' = "none" => last_vent_change' = last_vent_change
                 /\ dehum_cmd' # "none" => last_dehum_change' = clock'
                 /\ dehum_cmd' = "none" => last_dehum_change' = last_dehum_change)
          /\ ~outdoor_ok' => stamps' = stamps
          /\ vent_cmd' = "activate" =>
                (last_vent_change = None
                  \/ clock' - last_vent_change >= min_change_interval_s))]_vars

\* the air is good again less than min_change_interval_s after an AQI
\* closure: the vent is wanted open and stays closed, its stamp still that
\* of the closure
C25_Witness ==
    /\ outdoor_ok /\ ~AqiAbove /\ desired_vent /\ ~VentOn
    /\ vent_cmd = "none" /\ vent_recent
    /\ last_vent_change = vent_flip_at /\ last_vent_change < clock
    /\ \E i \in DOMAIN aqi_hist : aqi_hist[i] > AQI_THRESHOLD

\* C26: in a cycle with an outdoor reading, a line whose wanted level
\* differs from the level it has, and whose last change is unset or at
\* least min_change_interval_s old, is commanded to the wanted level,
\* whether or not earlier cycles held the change back; while the change is
\* held back the line keeps its level and its stamp.
C26_DebounceOnlyDelays ==
    [][(CycleStep /\ outdoor_ok') =>
         (/\ (/\ desired_vent' # VentOn
              /\ (last_vent_change = None
                   \/ clock' - last_vent_change >= min_change_interval_s))
                => (/\ vent_cmd' = IF desired_vent' THEN "activate" ELSE "deactivate"
                    /\ VentOn' = desired_vent')
          /\ (/\ desired_dehum' # DehumOn
              /\ (last_dehum_change = None
                   \/ clock' - last_dehum_change >= min_change_interval_s))
                => (/\ dehum_cmd' = IF desired_dehum' THEN "activate" ELSE "deactivate"
                    /\ DehumOn' = desired_dehum')
          /\ "vent" \in held' =>
                (vent_cmd' # "none" \/ last_vent_change' = last_vent_change)
          /\ "dehum" \in held' =>
                (dehum_cmd' # "none" \/ last_dehum_change' = last_dehum_change))]_vars

\* a vent closure that the cycle before held back, issued now that the
\* interval has passed, the air being good
C26_Witness ==
    /\ outdoor_ok /\ ~AqiAbove /\ "vent" \in held
    /\ ~desired_vent /\ vent_cmd = "deactivate" /\ ~vent_recent /\ ~VentOn

\* C27: once the try block has been left, by Ctrl-C or by an exception from
\* the set-up or from an update cycle, the program ends, and when it has
\* ended the driver's cleanup has run exactly once if the driver object was
\* created and not at all otherwise; it never runs while the loop is alive.
C27_CleanupExactlyOnce ==
    /\ [](pc = "exited" => cleanups = (IF gpio_exists THEN 1 ELSE 0))
    /\ [](pc # "exited" => cleanups = 0)
    /\ (pc = "ended") ~> (pc = "exited")

\* the program has ended after a driver fault in an update cycle that
\* followed at least one other cycle, and the cleanup has run once
C27_Witness ==
    /\ pc = "exited" /\ fault = "command" /\ gpio_exists /\ cleanups = 1
    /\ Len(aqi_hist) = 2

====
